---- MODULE Spec2Model ----
(***************************************************************************)
(* The daemon lifecycle supervisor of clanker (src/src/clanker/daemon.py): *)
(* ClankerDaemon (the process controller of one daemon) and DaemonManager  *)
(* (the supervisor), over the state files of the daemons directory and the *)
(* OS process table.                                                       *)
(*                                                                         *)
(* Specification Spec runs the operations one invocation at a time: every  *)
(* action is one whole call, with the outcomes of the OS (a spawn that     *)
(* fails, a process that ignores SIGTERM, a process that is still there    *)
(* 5 s after SIGKILL) drawn from small sets.  Writes of the state, pid and *)
(* autostart files succeed, and every process of the table belongs to the  *)
(* invoking user (no signal is refused).                                   *)
(*                                                                         *)
(* Values: a pid or a timestamp that Python holds as None is 0 here (the   *)
(* code tests them with `not pid`, `not last_failure_at`); real pids and   *)
(* clock values are >= 1.  A command is its token list; an exit code is a  *)
(* string, "None" when the code holds None.  A name (of an app, of a       *)
(* daemon) is the sequence of the segments that its '_' separate: the id   *)
(* "my_job" is <<"my", "job">>; a key is <<app name, daemon id>>, and a    *)
(* file of the daemons directory is named by the segments of its stem.     *)
(***************************************************************************)
EXTENDS Integers, Sequences, FiniteSets, TLC

\* ------------------------------------------------------------- bounds
MaxPid == 2
MaxNow == 6
MaxFailures == 2
MaxBackoffFailures == 6
MaxRaceStarts == 2
\* the timeout of stop() and of its wait after SIGKILL, in polls of the wait
StopTimeout == 2
KillWait == 1
\* the log: the bytes of the largest file, the bytes get_logs reads from its
\* end (64 * 1024 in the code), the largest number of lines asked for
MaxLogBytes == 4
LogWindow == 3
MaxLines == 3

\* ------------------------------------------------- program constants
None == 0
FAILURE_BACKOFF_SCHEDULE == <<5, 30, 120, 600>>

STOPPED == "stopped"
RUNNING == "running"
CRASHED == "crashed"
STARTING == "starting"
STOPPING == "stopping"

\* ---------------------------------------------------- the environment
\* The (app, daemon-id) keys in play, and the manifest: demo:alpha declares
\* a command template, demo:beta declares none.
Keys == {<<<<"demo">>, <<"alpha">>>>, <<<<"demo">>, <<"beta">>>>}
\* The keys of SpecFleet, whose names hold '_': notes:sync, notes:sync_daily
\* and notes_sync:daily.  The manifests declare a command for the first two.
FleetKeys ==
  {<<<<"notes">>, <<"sync">>>>, <<<<"notes">>, <<"sync", "daily">>>>,
   <<<<"notes", "sync">>, <<"daily">>>>}
NoCommand == <<>>
Configs ==
  [k \in Keys \cup FleetKeys |->
     IF k = <<<<"demo">>, <<"alpha">>>> THEN <<"sleep", "1000">>
     ELSE IF k = <<<<"notes">>, <<"sync">>>> THEN <<"python", "sync.py">>
     ELSE IF k = <<<<"notes">>, <<"sync", "daily">>>> THEN <<"python", "daily.py">>
     ELSE NoCommand]
\* the daemons that the callers of Spec start, stop and query one by one
Operated == {<<<<"demo">>, <<"alpha">>>>}

\* the stems of f"{app_name}_{daemon_id}.json", f"{app_name}_{daemon_id}.pid"
\* and f"{app_name}_{daemon_id}_autostart.json"
StateFile(k) == k[1] \o k[2]
PidFile(k) == k[1] \o k[2]
AutostartFile(k) == k[1] \o k[2] \o <<"autostart">>
\* the stem of app_log_file(f"{app_name}_daemon_{daemon_id}")
LogFile(k) == k[1] \o <<"daemon">> \o k[2]
\* the value of log_file for a file that is not there
NoLog == <<"none">>

Pids == 1..MaxPid
NoProc == <<>>
TickSteps == {5}
\* what process.wait() returns after SIGTERM and after SIGKILL: the return
\* code of a child of the caller, None for any other process; "timeout" is
\* psutil.TimeoutExpired
TermOutcomes == {"None", "-15", "timeout"}
KillOutcomes == {"None", "-9", "timeout"}
\* what a direct caller of ClankerDaemon.start passes as command
ManualCommand == <<"python", "daemon.py">>

VARIABLES
  now,         \* the wall clock, datetime.now()
  state_file,  \* stem -> the <app>_<id>.json file: [exists, state, kind]
  pid_file,    \* stem -> the content of <app>_<id>.pid, None when there is no file
  log_file,    \* stem -> the bytes of <app>_<id>.log, NoLog when there is no file
  autostart,   \* stem -> the <app>_<id>_autostart.json file: "absent", "true", "false", "invalid" (no JSON)
  ptable,      \* the OS process table: pid -> the key the process was spawned for, NoProc when no such process
  call,        \* the invocation that ran last and what it returned
  fail_at,     \* key -> when failure_count was last incremented (None: never, or reset since)
  crashes,     \* key -> failures (process deaths, failed spawns) since the count the last stop() left
  inflight     \* the _heartbeat() of a second caller that has begun and not yet returned

vars ==
  <<now, state_file, pid_file, log_file, autostart, ptable, call, fail_at, crashes,
    inflight>>

\* ------------------------------------------------------- state store
DefaultState ==
  [status |-> STOPPED, pid |-> None, command |-> NoCommand, started_at |-> None,
   last_heartbeat |-> None, exit_code |-> "None", ended_at |-> None,
   failure_count |-> 0, last_failure_at |-> None]

\* A world is what an invocation reads and writes: the state files (sf),
\* the pid files (pf) and the process table (pt); log lists the statuses the
\* invocation has persisted so far, <<stem, status>> in the order written.
World == [sf |-> state_file, pf |-> pid_file, pt |-> ptable, log |-> <<>>]

\* what a state file holds: a record the code wrote ("record"), text that
\* json.loads rejects, as an empty or truncated file ("invalid"), or JSON
\* that is no object ("nonrecord")
FileKinds == {"record", "invalid", "nonrecord"}

NoFile == [exists |-> FALSE, state |-> DefaultState, kind |-> "record"]

\* the file is there and json.loads gives a dict
Readable(w, f) == f \in DOMAIN w.sf /\ w.sf[f].exists /\ w.sf[f].kind = "record"

LoadState(w, k) ==
  IF Readable(w, StateFile(k)) THEN w.sf[StateFile(k)].state ELSE DefaultState

\* _load_state returns what json.loads gave, and that is no dict: the first
\* state.get of the caller raises AttributeError
LoadRaises(w, k) ==
  LET f == StateFile(k) IN
  f \in DOMAIN w.sf /\ w.sf[f].exists /\ w.sf[f].kind = "nonrecord"

SaveState(w, k, s) ==
  [w EXCEPT !.sf[StateFile(k)] = [exists |-> TRUE, state |-> s, kind |-> "record"],
            !.log = Append(@, <<StateFile(k), s.status>>)]

\* variant: the registration keeps the failure history of the record
RegisterDaemonKeepFailures(w, k, pid, command, t) ==
  SaveState(w, k, [LoadState(w, k) EXCEPT
    !.pid = pid, !.status = RUNNING, !.command = command, !.started_at = t,
    !.last_heartbeat = t])

RegisterDaemon(w, k, pid, command, t) ==
  SaveState(w, k, [LoadState(w, k) EXCEPT
    !.pid = pid, !.status = RUNNING, !.command = command, !.started_at = t,
    !.last_heartbeat = t, !.failure_count = 0, !.last_failure_at = None])

\* variant: a terminal status does not clear the pid
TerminalFieldsKeepPid(state, status, exit_code, t) ==
  [state EXCEPT
     !.status = status,
     !.last_heartbeat = t,
     !.ended_at = IF status \in {STOPPED, CRASHED} THEN t ELSE state.ended_at,
     !.exit_code = exit_code]

\* _mark_status, lines 115-125: the status, the heartbeat, and for a terminal
\* status the cleared pid and ended_at
TerminalFields(state, status, exit_code, t) ==
  LET terminal == status \in {STOPPED, CRASHED} IN
  [state EXCEPT
     !.status = status,
     !.last_heartbeat = t,
     !.pid = IF terminal THEN None ELSE state.pid,
     !.ended_at = IF terminal THEN t ELSE state.ended_at,
     !.exit_code = exit_code]

\* variant: a crash is counted, last_failure_at is not written
CountFailureUnstamped(state, status, t) ==
  IF status = CRASHED
    THEN [state EXCEPT !.failure_count = state.failure_count + 1]
    ELSE state

\* _mark_status, lines 127-129
CountFailure(state, status, t) ==
  IF status = CRASHED
    THEN [state EXCEPT !.failure_count = state.failure_count + 1,
                       !.last_failure_at = t]
    ELSE state

\* _mark_status, lines 131-133
ResetFailures(state, reset_failures) ==
  IF reset_failures
    THEN [state EXCEPT !.failure_count = 0, !.last_failure_at = None]
    ELSE state

MarkStatus(w, k, status, exit_code, reset_failures, t) ==
  SaveState(w, k,
    ResetFailures(
      CountFailure(TerminalFields(LoadState(w, k), status, exit_code, t), status, t),
      reset_failures))

UpdateStatus(w, k, status, t) ==
  SaveState(w, k, [LoadState(w, k) EXCEPT !.status = status, !.last_heartbeat = t])

\* variant: the heartbeat stamps started_at as well
HeartbeatRestamps(w, k, t) ==
  SaveState(w, k, [LoadState(w, k) EXCEPT !.last_heartbeat = t, !.started_at = t])

Heartbeat(w, k, t) ==
  SaveState(w, k, [LoadState(w, k) EXCEPT !.last_heartbeat = t])

\* variant: the pid file is removed, the status is not persisted
CleanupFilesNoMark(w, k, status, exit_code, reset_failures, t) ==
  [w EXCEPT !.pf[PidFile(k)] = None]

CleanupFiles(w, k, status, exit_code, reset_failures, t) ==
  MarkStatus([w EXCEPT !.pf[PidFile(k)] = None], k, status, exit_code, reset_failures, t)

\* ------------------------------------------------ process controller
\* psutil.Process(pid) succeeds
ProcessExists(w, pid) == pid \in Pids /\ w.pt[pid] # NoProc

\* get_pid: -> [w, pid]
GetPid(w, k, t) ==
  LET pid == LoadState(w, k).pid IN
  IF pid = None THEN [w |-> w, pid |-> None]
  ELSE IF ProcessExists(w, pid) THEN [w |-> w, pid |-> pid]
  ELSE [w |-> MarkStatus(w, k, CRASHED, "None", FALSE, t), pid |-> None]

\* variant: the handler swallows the error without persisting anything
SpawnFailedSilently(w, k, t) == w

\* start, lines 206-209: the handler of a spawn that raised
SpawnFailed(w, k, t) == CleanupFiles(w, k, CRASHED, "None", FALSE, t)

Min(a, b) == IF a < b THEN a ELSE b

\* variant: the schedule is indexed by failure_count, not failure_count - 1
NextRestartTimeOffByOne(failure_count, last_failure_at) ==
  IF failure_count <= 0 \/ last_failure_at = None THEN None
  ELSE last_failure_at
       + FAILURE_BACKOFF_SCHEDULE[Min(failure_count, Len(FAILURE_BACKOFF_SCHEDULE) - 1) + 1]

\* _next_restart_time: None, or the time of the next eligible restart
NextRestartTime(failure_count, last_failure_at) ==
  IF failure_count <= 0 \/ last_failure_at = None THEN None
  ELSE last_failure_at
       + FAILURE_BACKOFF_SCHEDULE[Min(failure_count - 1, Len(FAILURE_BACKOFF_SCHEDULE) - 1) + 1]

\* the backoff check of start_enabled_daemons: skip the restart
BackoffSkips(state, t) ==
  LET next_time == NextRestartTime(state.failure_count, state.last_failure_at)
  IN next_time # None /\ t < next_time

\* variant: start() keeps to the backoff window as start_enabled_daemons does
StartDaemonGated(w, k, command, popen, t) ==
  LET g == GetPid(w, k, t) IN
  IF g.pid # None \/ BackoffSkips(LoadState(g.w, k), t)
    THEN [w |-> g.w, ret |-> FALSE, pid |-> None, tried |-> FALSE]
  ELSE IF popen # None
    THEN LET w1 == [g.w EXCEPT !.pt[popen] = k, !.pf[PidFile(k)] = popen] IN
         [w |-> RegisterDaemon(w1, k, popen, command, t), ret |-> TRUE,
          pid |-> popen, tried |-> TRUE]
  ELSE [w |-> SpawnFailed(g.w, k, t), ret |-> FALSE, pid |-> None, tried |-> TRUE]

\* variant: start() spawns without asking is_running()
StartDaemonUnchecked(w, k, command, popen, t) ==
  IF popen # None
    THEN [w |-> RegisterDaemon([w EXCEPT !.pt[popen] = k, !.pf[PidFile(k)] = popen],
                               k, popen, command, t),
          ret |-> TRUE, pid |-> popen, tried |-> TRUE]
    ELSE [w |-> CleanupFiles(w, k, CRASHED, "None", FALSE, t), ret |-> FALSE,
          pid |-> None, tried |-> TRUE]

\* variant: start persists STARTING before it spawns the process
StartDaemonAnnounced(w, k, command, popen, t) ==
  IF GetPid(w, k, t).pid # None
    THEN [w |-> GetPid(w, k, t).w, ret |-> FALSE, pid |-> None, tried |-> FALSE]
  ELSE StartDaemonUnchecked(UpdateStatus(GetPid(w, k, t).w, k, STARTING, t),
                            k, command, popen, t)

\* start: popen is the pid the OS gives the new process, None when Popen
\* raises.  -> [w, ret, pid, tried]
StartDaemon(w, k, command, popen, t) ==
  LET g == GetPid(w, k, t) IN
  IF g.pid # None
    THEN [w |-> g.w, ret |-> FALSE, pid |-> None, tried |-> FALSE]
  ELSE IF popen # None
    THEN LET w1 == [g.w EXCEPT !.pt[popen] = k, !.pf[PidFile(k)] = popen] IN
         [w |-> RegisterDaemon(w1, k, popen, command, t), ret |-> TRUE,
          pid |-> popen, tried |-> TRUE]
  ELSE [w |-> SpawnFailed(g.w, k, t), ret |-> FALSE, pid |-> None, tried |-> TRUE]


\* stop: term is what the wait after SIGTERM gives, kill what the wait after
\* SIGKILL gives.  -> [w, ret, pid]
StopDaemon(w, k, term, kill, t) ==
  LET g == GetPid(w, k, t) IN
  IF g.pid = None
    THEN [w |-> CleanupFiles(g.w, k, STOPPED, "None", FALSE, t), ret |-> TRUE,
          pid |-> None]
  ELSE
    LET w1 == UpdateStatus(g.w, k, STOPPING, t)
        gone == term # "timeout" \/ kill # "timeout"
        exit_code == IF term # "timeout" THEN term
                     ELSE IF kill # "timeout" THEN kill ELSE "None"
        w2 == IF gone THEN [w1 EXCEPT !.pt[g.pid] = NoProc] ELSE w1
    IN [w |-> CleanupFiles(w2, k, STOPPED, exit_code, TRUE, t), ret |-> TRUE,
        pid |-> g.pid]

\* variant: get_status stamps the heartbeat of a record without a pid as well
GetStatusTouches(w, k, t) ==
  LET state == LoadState(w, k) IN
  IF state.pid = None
    THEN [w |-> Heartbeat(w, k, t), status |-> state.status, pid |-> None,
          failure_count |-> state.failure_count]
  ELSE IF ProcessExists(w, state.pid)
    THEN [w |-> Heartbeat(w, k, t), status |-> RUNNING, pid |-> state.pid,
          failure_count |-> state.failure_count]
  ELSE [w |-> MarkStatus(w, k, CRASHED, "None", FALSE, t), status |-> CRASHED,
        pid |-> None, failure_count |-> state.failure_count + 1]

\* get_status: -> [w, status, pid, failure_count], the fields of the returned dict
GetStatus(w, k, t) ==
  LET state == LoadState(w, k) IN
  IF state.pid = None
    THEN [w |-> w, status |-> state.status, pid |-> None,
          failure_count |-> state.failure_count]
  ELSE IF ProcessExists(w, state.pid)
    THEN [w |-> Heartbeat(w, k, t), status |-> RUNNING, pid |-> state.pid,
          failure_count |-> state.failure_count]
  ELSE [w |-> MarkStatus(w, k, CRASHED, "None", FALSE, t), status |-> CRASHED,
        pid |-> None, failure_count |-> state.failure_count + 1]

\* ---------------------------------------------------------- supervisor
\* the state files whose record holds a pid that no process has
Stale(w) ==
  {f \in DOMAIN w.sf : Readable(w, f) /\ w.sf[f].state.pid # None
                       /\ ~ProcessExists(w, w.sf[f].state.pid)}

\* variant: a stale record is marked CRASHED with its failure_count as it was
CleanupEntryUncounted(w, f, t) ==
  LET state == w.sf[f].state IN
  IF w.sf[f].kind = "invalid"
    THEN [w |-> [w EXCEPT !.sf[f] = NoFile], cleaned |-> 1]
  ELSE IF f \in Stale(w)
    THEN [w |-> [w EXCEPT !.sf[f].state =
                    [state EXCEPT !.status = CRASHED, !.pid = None, !.ended_at = t,
                                  !.last_heartbeat = t],
                          !.log = Append(@, <<f, CRASHED>>)],
          cleaned |-> 1]
  ELSE [w |-> w, cleaned |-> 0]

\* variant: the sweep marks a stale record CRASHED and leaves its pid
CleanupEntryKeepsPid(w, f, t) ==
  LET state == w.sf[f].state IN
  IF w.sf[f].kind = "invalid"
    THEN [w |-> [w EXCEPT !.sf[f] = NoFile], cleaned |-> 1]
  ELSE IF f \in Stale(w)
    THEN [w |-> [w EXCEPT !.sf[f].state =
                    [state EXCEPT !.status = CRASHED, !.ended_at = t,
                                  !.last_heartbeat = t],
                          !.log = Append(@, <<f, CRASHED>>)],
          cleaned |-> 1]
  ELSE [w |-> w, cleaned |-> 0]

\* one state file f of the loop of cleanup_stale_entries: a file that does
\* not parse is removed and counted, a stale record is marked CRASHED and
\* counted.  -> [w, cleaned]
CleanupEntry(w, f, t) ==
  LET state == w.sf[f].state IN
  IF w.sf[f].kind = "invalid"
    THEN [w |-> [w EXCEPT !.sf[f] = NoFile], cleaned |-> 1]
  ELSE IF f \in Stale(w)
    THEN [w |-> [w EXCEPT !.sf[f].state =
                    [state EXCEPT !.status = CRASHED, !.pid = None, !.ended_at = t,
                                  !.last_heartbeat = t,
                                  !.failure_count = state.failure_count + 1],
                          !.log = Append(@, <<f, CRASHED>>)],
          cleaned |-> 1]
  ELSE [w |-> w, cleaned |-> 0]

\* the loop from the i-th file of the glob on; acc is [w, cleaned, raised].
\* JSON that is no object makes state.get raise AttributeError, which the
\* handler of the loop does not catch: the call ends there.
RECURSIVE CleanupFrom(_, _, _, _)
CleanupFrom(acc, order, i, t) ==
  IF i > Len(order) THEN acc
  ELSE IF acc.w.sf[order[i]].kind = "nonrecord" THEN [acc EXCEPT !.raised = TRUE]
  ELSE LET r == CleanupEntry(acc.w, order[i], t) IN
       CleanupFrom([acc EXCEPT !.w = r.w, !.cleaned = @ + r.cleaned], order, i + 1, t)

\* cleanup_stale_entries over the state files in the order the glob lists
\* them.  -> [w, cleaned, raised]
CleanupStaleEntries(w, order, t) ==
  CleanupFrom([w |-> w, cleaned |-> 0, raised |-> FALSE], order, 1, t)

\* (configs.get(app_name, {}) or {}).get(daemon_id)
CmdTemplate(k) == IF k \in DOMAIN Configs THEN Configs[k] ELSE NoCommand

\* ["uv", "run", "--project", f"apps/{app_name}"] + shlex.split(cmd_template)
UvCommand(k) == <<"uv", "run", "--project", "apps/">> \o k[1] \o CmdTemplate(k)

\* the key start_enabled_daemons reads from the stem of an autostart file:
\* parts = filename.split('_', 2); app_name, daemon_id = parts[0], parts[1]
ParseAutostartFile(f) == <<<<f[1]>>, <<f[2]>>>>

\* start_enabled_daemons, from the i-th enabled autostart file on.  acc is
\* [w, results, started, failed, spawn_ok]: results is the dict of outcomes
\* by key, started are the daemons start() was called for, failed those
\* whose start() returned false.  popen[i] is the pid the OS gives the
\* process spawned for the i-th file, None when its spawn fails.
RECURSIVE StartEnabledFrom(_, _, _, _, _)
StartEnabledFrom(acc, order, i, popen, t) ==
  IF i > Len(order) THEN acc
  ELSE IF LoadRaises(acc.w, ParseAutostartFile(order[i])) THEN [acc EXCEPT !.raised = TRUE]
  ELSE
    LET k == ParseAutostartFile(order[i])
        g == GetPid(acc.w, k, t)
        r == StartDaemon(g.w, k, UvCommand(k), popen[i], t)
        next ==
          IF g.pid # None
            THEN [acc EXCEPT !.w = g.w, !.results = (k :> "true") @@ @]
          ELSE IF CmdTemplate(k) = NoCommand
            THEN [acc EXCEPT !.w = g.w, !.results = (k :> "false") @@ @]
          ELSE IF BackoffSkips(LoadState(g.w, k), t)
            THEN [acc EXCEPT !.w = g.w, !.results = (k :> "false") @@ @]
          ELSE [acc EXCEPT !.w = r.w,
                           !.results = (k :> (IF r.ret THEN "true" ELSE "false")) @@ @,
                           !.started = @ \cup {k},
                           !.failed = IF r.ret THEN @ ELSE @ \cup {k},
                           !.spawn_ok = @ /\ (popen[i] = None \/ g.w.pt[popen[i]] = NoProc),
                           !.spawned = @ \cup {i}]
    IN StartEnabledFrom(next, order, i + 1, popen, t)

\* start_enabled_daemons over the enabled autostart files in the order the
\* glob lists them.  spawn_ok: every pid the OS gave was free when it gave
\* it; spawned: the files start() was called for.
StartEnabledDaemons(w, order, popen, t) ==
  StartEnabledFrom([w |-> w, results |-> <<>>, started |-> {}, failed |-> {},
                    spawn_ok |-> TRUE, spawned |-> {}, raised |-> FALSE],
                   order, 1, popen, t)

\* the daemons of the apps of this run, whose manifests
\* discover_daemon_configs reads
Installed == DOMAIN crashes

\* the key list_daemons reads from the stem of a file that "*_*.json"
\* matches: app_name, daemon_id = filename.split('_', 1)
ParseStateFile(f) == <<<<f[1]>>, SubSeq(f, 2, Len(f))>>

\* the files that glob("*_*.json") matches: the state files and, their names
\* ending in .json too, the autostart files
JsonFiles(w, au) ==
  {f \in DOMAIN w.sf : w.sf[f].exists} \cup {f \in DOMAIN au : au[f] # "absent"}

\* the daemons of list_daemons: those read from the file names, and the
\* daemons of the manifests that are not among them
Listed(w, au) ==
  {ParseStateFile(f) : f \in JsonFiles(w, au)}
    \cup {k \in Installed : Configs[k] # NoCommand}

\* the order of Python's strings on the segments of the names ('_' sorts
\* before every letter, so names compare segment by segment)
SegRank ==
  [s \in {"alpha", "autostart", "beta", "daily", "demo", "notes", "sync"} |->
     CASE s = "alpha" -> 1 [] s = "autostart" -> 2 [] s = "beta" -> 3
       [] s = "daily" -> 4 [] s = "demo" -> 5 [] s = "notes" -> 6 [] s = "sync" -> 7]

RECURSIVE NameLess(_, _)
NameLess(a, b) ==
  IF a = <<>> THEN b # <<>>
  ELSE IF b = <<>> THEN FALSE
  ELSE IF Head(a) = Head(b) THEN NameLess(Tail(a), Tail(b))
  ELSE SegRank[Head(a)] < SegRank[Head(b)]

KeyLess(j, k) == IF j[1] # k[1] THEN NameLess(j[1], k[1]) ELSE NameLess(j[2], k[2])

\* sorted(daemon_state_files): by app name, then by daemon id
RECURSIVE SortedKeys(_)
SortedKeys(S) ==
  IF S = {} THEN <<>>
  ELSE LET m == CHOOSE k \in S : \A j \in S \ {k} : KeyLess(k, j)
       IN <<m>> \o SortedKeys(S \ {m})

\* the loop of list_daemons from the i-th daemon on: get_status() of each,
\* with the command of the manifest over the persisted one.  acc is
\* [w, entries, raised].
RECURSIVE ListFrom(_, _, _, _)
ListFrom(acc, order, i, t) ==
  IF i > Len(order) THEN acc
  ELSE IF LoadRaises(acc.w, order[i]) THEN [acc EXCEPT !.raised = TRUE]
  ELSE
    LET k == order[i]
        r == GetStatus(acc.w, k, t)
        entry == [key |-> k, status |-> r.status, pid |-> r.pid,
                  command |-> IF CmdTemplate(k) # NoCommand THEN CmdTemplate(k)
                              ELSE LoadState(acc.w, k).command]
    IN ListFrom([acc EXCEPT !.w = r.w, !.entries = Append(@, entry)], order, i + 1, t)

\* list_daemons.  -> [w, entries, raised]
ListDaemons(w, au, t) ==
  ListFrom([w |-> w, entries |-> <<>>, raised |-> FALSE],
           SortedKeys(Listed(w, au)), 1, t)

\* the loop of stop_all_daemons over the entries of list_daemons: stop() of
\* each daemon listed RUNNING.  term[p], kill[p] are what the waits of
\* stop() for the process p give.  acc is [w, results].
RECURSIVE StopAllFrom(_, _, _, _, _, _)
StopAllFrom(acc, entries, i, term, kill, t) ==
  IF i > Len(entries) THEN acc
  ELSE IF entries[i].status # RUNNING
    THEN StopAllFrom(acc, entries, i + 1, term, kill, t)
  ELSE
    LET k == entries[i].key
        r == StopDaemon(acc.w, k, term[entries[i].pid], kill[entries[i].pid], t)
    IN StopAllFrom([acc EXCEPT !.w = r.w,
                               !.results = (k :> (IF r.ret THEN "true" ELSE "false")) @@ @],
                   entries, i + 1, term, kill, t)

\* stop_all_daemons.  -> [w, results, raised, entries]
StopAllDaemons(w, au, term, kill, t) ==
  LET l == ListDaemons(w, au, t)
      r == StopAllFrom([w |-> l.w, results |-> <<>>], l.entries, 1, term, kill, t)
  IN IF l.raised
       THEN [w |-> l.w, results |-> <<>>, raised |-> TRUE, entries |-> l.entries]
       ELSE [w |-> r.w, results |-> r.results, raised |-> FALSE, entries |-> l.entries]

\* get_autostart: data.get("enabled", False) of the autostart file, False
\* when there is none
GetAutostart(au, k) ==
  AutostartFile(k) \in DOMAIN au /\ au[AutostartFile(k)] = "true"

\* ------------------------------------------------------------------ logs
\* the bytes of a log: two letters and the newline
LogBytes == {"a", "b", "nl"}

\* text.splitlines(), from the i-th byte on; cur is the line begun.  A
\* newline ends a line, the end of the text ends a line that has bytes.
RECURSIVE SplitFrom(_, _, _)
SplitFrom(bytes, i, cur) ==
  IF i > Len(bytes) THEN (IF cur = <<>> THEN <<>> ELSE <<cur>>)
  ELSE IF bytes[i] = "nl" THEN <<cur>> \o SplitFrom(bytes, i + 1, <<>>)
  ELSE SplitFrom(bytes, i + 1, Append(cur, bytes[i]))

SplitLines(bytes) == SplitFrom(bytes, 1, <<>>)

\* all_lines[-lines:] of Python: -0 is 0, the slice from the start
PySuffix(all_lines, lines) ==
  IF lines = 0 THEN all_lines
  ELSE SubSeq(all_lines, (IF Len(all_lines) > lines THEN Len(all_lines) - lines ELSE 0) + 1,
              Len(all_lines))

\* get_logs: the lines of the last min(max_bytes, file_size) bytes of the
\* log, and of them the last `lines`
GetLogs(lf, k, lines) ==
  IF lf[LogFile(k)] = NoLog THEN <<>>
  ELSE LET bytes == lf[LogFile(k)]
           file_size == Len(bytes)
           read_size == Min(LogWindow, file_size)
           chunk == SubSeq(bytes, file_size - read_size + 1, file_size)
       IN PySuffix(SplitLines(chunk), lines)

\* ------------------------------------------------------------ actions
NoResults == <<>>
NoKey == <<>>

\* the record of an invocation: what was called, for which daemon, and what
\* it returned (ret: the boolean; pid: the pid start() spawned, the pid
\* stop() found running, the pid is_running() and get_status() found in the
\* record; status: the status of get_status; results, started: the map of
\* start_enabled_daemons and the daemons it called start() for; count: the
\* number cleanup_stale_entries returns, the failure_count of get_status;
\* repeat: the invocation before was the same operation on the same daemon;
\* writes: the statuses it persisted, in order; raised: it ended with an
\* exception; entries: the list of list_daemons)
Called(op, k, ret, pid) ==
  [op |-> op, key |-> k, ret |-> ret, pid |-> pid, status |-> "",
   results |-> NoResults, started |-> {}, count |-> 0, entries |-> <<>>,
   repeat |-> call.op = op /\ call.key = k, writes |-> <<>>, raised |-> FALSE]

FailureCount(sf, k) ==
  LET f == StateFile(k) IN
  IF f \in DOMAIN sf /\ sf[f].exists /\ sf[f].kind = "record"
    THEN sf[f].state.failure_count ELSE 0

\* fail_at after an invocation took the state files from sf to sf2 at time t
FailAt(sf, sf2, t) ==
  [k \in DOMAIN fail_at |->
     IF FailureCount(sf2, k) = 0 THEN None
     ELSE IF FailureCount(sf2, k) > FailureCount(sf, k) THEN t
     ELSE fail_at[k]]

Commit(w, t) ==
  /\ state_file' = w.sf
  /\ pid_file' = w.pf
  /\ ptable' = w.pt
  /\ fail_at' = FailAt(state_file, w.sf, t)

\* the invocation op on k ends with the exception of the first state.get
Raises(op, k) ==
  /\ call' = [Called(op, k, FALSE, None) EXCEPT !.raised = TRUE]
  /\ UNCHANGED <<log_file, inflight, now, state_file, pid_file, autostart, ptable, fail_at, crashes>>

\* open(self.log_file, 'a') of the start() of each daemon of ks: a log that
\* is not there is created empty
OpenLogs(lf, ks) ==
  [f \in DOMAIN lf |->
     IF f \in {LogFile(k) : k \in ks} /\ lf[f] = NoLog THEN <<>> ELSE lf[f]]

FreePids(w) == {p \in Pids : w.pt[p] = NoProc}

\* the failure counters stay within MaxFailures
CanFail(w, k) ==
  /\ FailureCount(w.sf, k) <= MaxFailures
  /\ crashes[k] < MaxFailures

Start(k) ==
  IF LoadRaises(World, k) THEN Raises("start", k)
  ELSE
  \E popen \in {None} \cup FreePids(World) :
    LET r == StartDaemon(World, k, ManualCommand, popen, now) IN
    /\ ~r.tried => popen = None
    /\ (r.tried /\ popen = None) => CanFail(r.w, k)
    /\ Commit(r.w, now)
    /\ call' = [Called("start", k, r.ret, r.pid) EXCEPT !.writes = r.w.log]
    /\ crashes' = IF r.tried /\ popen = None
                    THEN [crashes EXCEPT ![k] = @ + 1] ELSE crashes
    /\ log_file' = IF r.tried THEN OpenLogs(log_file, {k}) ELSE log_file
    /\ UNCHANGED <<now, autostart>>

Stop(k) ==
  IF LoadRaises(World, k) THEN Raises("stop", k)
  ELSE
  \E term \in TermOutcomes, kill \in KillOutcomes :
    LET r == StopDaemon(World, k, term, kill, now) IN
    /\ term # "timeout" => kill = "timeout"
    /\ r.pid = None => term = "timeout"
    /\ Commit(r.w, now)
    /\ call' = [Called("stop", k, r.ret, r.pid) EXCEPT !.writes = r.w.log]
    /\ crashes' = [crashes EXCEPT ![k] = FailureCount(r.w.sf, k)]
    /\ UNCHANGED <<log_file, inflight, now, autostart>>

IsRunning(k) ==
  IF LoadRaises(World, k) THEN Raises("is_running", k)
  ELSE
  LET g == GetPid(World, k, now) IN
  /\ Commit(g.w, now)
  /\ call' = [Called("is_running", k, g.pid # None, LoadState(World, k).pid) EXCEPT
                !.writes = g.w.log]
  /\ UNCHANGED <<log_file, inflight, now, autostart, crashes>>

Status(k) ==
  IF LoadRaises(World, k) THEN Raises("get_status", k)
  ELSE
  LET r == GetStatus(World, k, now) IN
  /\ Commit(r.w, now)
  /\ call' = [Called("get_status", k, FALSE, LoadState(World, k).pid) EXCEPT
                !.status = r.status, !.count = r.failure_count, !.writes = r.w.log]
  /\ UNCHANGED <<log_file, inflight, now, autostart, crashes>>

\* the orders in which a glob can list the files of S
Orders(S) ==
  {o \in [1..Cardinality(S) -> S] : \A i, j \in 1..Cardinality(S) : i # j => o[i] # o[j]}

\* variant: every file of S that holds no record of a live process is removed
SweepAutostartAll(au, S) ==
  [f \in DOMAIN au |-> IF f \in S THEN "absent" ELSE au[f]]

\* the autostart files after cleanup_stale_entries reached those of S: its
\* glob matches them too; one that holds no JSON is removed and counted, the
\* others hold no pid and are left
SweepAutostart(au, S) ==
  [f \in DOMAIN au |-> IF f \in S /\ au[f] = "invalid" THEN "absent" ELSE au[f]]

\* a call that raised had reached any part of the autostart files
CleanupStale ==
  \E order \in Orders({f \in DOMAIN state_file : state_file[f].exists}) :
    LET r == CleanupStaleEntries(World, order, now) IN
    \E S \in IF r.raised THEN SUBSET DOMAIN autostart ELSE {DOMAIN autostart} :
      LET au == SweepAutostart(autostart, S)
          removed == Cardinality({f \in DOMAIN au : au[f] # autostart[f]})
      IN
      /\ Commit(r.w, now)
      /\ autostart' = au
      /\ call' = [Called("cleanup_stale_entries", NoKey, FALSE, None) EXCEPT
                    !.count = r.cleaned + removed, !.writes = r.w.log,
                    !.raised = r.raised]
      /\ UNCHANGED <<log_file, inflight, now, crashes>>

SetAutostart(k, enabled) ==
  /\ autostart' = [autostart EXCEPT
                     ![AutostartFile(k)] = IF enabled THEN "true" ELSE "false"]
  /\ call' = Called("set_autostart", k, enabled, None)
  /\ UNCHANGED <<log_file, inflight, now, state_file, pid_file, ptable, fail_at, crashes>>

StartEnabled ==
  \E order \in Orders({f \in DOMAIN autostart : autostart[f] = "true"}) :
    \E popen \in [1..Len(order) -> {None} \cup Pids] :
      LET r == StartEnabledDaemons(World, order, popen, now) IN
      /\ \A i \in 1..Len(order) : i \notin r.spawned => popen[i] = None
      /\ r.spawn_ok
      /\ \A k \in r.failed : CanFail(r.w, k)
      /\ Commit(r.w, now)
      /\ call' = [Called("start_enabled_daemons", NoKey, FALSE, None) EXCEPT
                    !.results = r.results, !.started = r.started,
                    !.writes = r.w.log, !.raised = r.raised]
      /\ crashes' = [k \in DOMAIN crashes |->
                       IF k \in r.failed THEN crashes[k] + 1 ELSE crashes[k]]
      /\ log_file' = OpenLogs(log_file, r.started)
      /\ UNCHANGED <<inflight, now, autostart>>

List ==
  LET l == ListDaemons(World, autostart, now) IN
  /\ Commit(l.w, now)
  /\ call' = [Called("list_daemons", NoKey, FALSE, None) EXCEPT
                !.entries = l.entries, !.writes = l.w.log, !.raised = l.raised]
  /\ UNCHANGED <<log_file, inflight, now, autostart, crashes>>

\* what the two waits of a stop() can give: the second is reached only
\* when the first times out
StopOutcomes ==
  {o \in TermOutcomes \X KillOutcomes : o[1] # "timeout" => o[2] = "timeout"}

StopAll ==
  \E out \in [Pids -> StopOutcomes] :
    LET r == StopAllDaemons(World, autostart, [p \in Pids |-> out[p][1]],
                            [p \in Pids |-> out[p][2]], now) IN
    /\ \A p \in Pids : ptable[p] = NoProc => out[p] = <<"timeout", "timeout">>
    /\ Commit(r.w, now)
    /\ call' = [Called("stop_all_daemons", NoKey, FALSE, None) EXCEPT
                  !.results = r.results, !.entries = r.entries,
                  !.writes = r.w.log, !.raised = r.raised]
    /\ crashes' = [k \in DOMAIN crashes |-> FailureCount(r.w.sf, k)]
    /\ UNCHANGED <<log_file, inflight, now, autostart>>

GetLogsCall(k, lines) ==
  /\ call' = [Called("get_logs", k, FALSE, None) EXCEPT
                !.count = lines, !.entries = GetLogs(log_file, k, lines)]
  /\ UNCHANGED <<log_file, inflight, now, state_file, pid_file, autostart, ptable,
                 fail_at, crashes>>

GetAutostartCall(k) ==
  /\ call' = Called("get_autostart", k, GetAutostart(autostart, k), None)
  /\ UNCHANGED <<log_file, inflight, now, state_file, pid_file, autostart, ptable, fail_at, crashes>>

\* the process dies out-of-band
Crash(p) ==
  /\ ptable[p] # NoProc
  /\ LET k == ptable[p]
         recorded == LoadState(World, k).pid = p
     IN /\ recorded => crashes[k] < MaxFailures
        /\ crashes' = IF recorded THEN [crashes EXCEPT ![k] = @ + 1] ELSE crashes
  /\ ptable' = [ptable EXCEPT ![p] = NoProc]
  /\ call' = Called("crash", NoKey, FALSE, p)
  /\ UNCHANGED <<log_file, inflight, now, state_file, pid_file, autostart, fail_at>>

Tick ==
  \E d \in TickSteps :
    /\ now + d <= MaxNow
    /\ now' = now + d
    /\ call' = Called("tick", NoKey, FALSE, None)
    /\ UNCHANGED <<log_file, inflight, state_file, pid_file, autostart, ptable, fail_at, crashes>>

NoCall ==
  [op |-> "init", key |-> NoKey, ret |-> FALSE, pid |-> None, status |-> "",
   results |-> NoResults, started |-> {}, count |-> 0, entries |-> <<>>,
   repeat |-> FALSE, writes |-> <<>>, raised |-> FALSE]

\* no call of the second caller is in progress.  pc is its position, key
\* its daemon; state and before belong to a _heartbeat(); pid, elapsed,
\* exit_code and events to a stop() or a start(): the pid it works on, the
\* time its wait has lasted, the exit code it captured, and what it has
\* persisted and signalled so far.
Idle == [pc |-> "idle", key |-> NoKey, state |-> DefaultState, before |-> DefaultState,
         done |-> FALSE, starts |-> 0, pid |-> None, elapsed |-> 0,
         exit_code |-> "None", events |-> <<>>]

\* the daemons directory and the process table are empty
EmptyDir(keys) ==
  /\ state_file = [f \in {StateFile(k) : k \in keys} |-> NoFile]
  /\ pid_file = [f \in {PidFile(k) : k \in keys} |-> None]
  /\ autostart = [f \in {AutostartFile(k) : k \in keys} |-> "absent"]
  /\ log_file = [f \in {LogFile(k) : k \in keys} |-> NoLog]
  /\ ptable = [p \in Pids |-> NoProc]
  /\ call = NoCall
  /\ fail_at = [k \in keys |-> None]
  /\ crashes = [k \in keys |-> 0]
  /\ inflight = Idle

Init ==
  /\ now = 1
  /\ EmptyDir(Keys)

Next ==
  \/ \E k \in Operated : Start(k) /\ UNCHANGED inflight
  \/ \E k \in Operated : Stop(k)
  \/ \E k \in Operated : IsRunning(k)
  \/ \E k \in Operated : Status(k)
  \/ CleanupStale
  \/ \E k \in Operated, enabled \in BOOLEAN : SetAutostart(k, enabled)
  \/ StartEnabled
  \/ \E p \in Pids : Crash(p)
  \/ Tick

Spec == Init /\ [][Next]_vars

\* ------------------------------------- the backoff function on its own
\* SpecBackoff draws a crashed record (failure_count, last_failure_at) and
\* the clock from bounded sets and applies _next_restart_time and the
\* backoff check of start_enabled_daemons to it.
BackoffRecord(f, lfa) ==
  [DefaultState EXCEPT !.status = IF f = 0 THEN STOPPED ELSE CRASHED,
                       !.failure_count = f, !.last_failure_at = lfa]

InitBackoff ==
  /\ now \in 1..MaxNow
  /\ \E f \in 0..MaxBackoffFailures, lfa \in 0..MaxNow :
       /\ lfa <= now
       /\ f = 0 => lfa = None
       /\ state_file = [g \in {StateFile(k) : k \in Keys} |->
            IF g \in {StateFile(k) : k \in Operated}
              THEN [exists |-> TRUE, state |-> BackoffRecord(f, lfa), kind |-> "record"]
              ELSE NoFile]
  /\ pid_file = [g \in {PidFile(k) : k \in Keys} |-> None]
  /\ autostart = [g \in {AutostartFile(k) : k \in Keys} |-> "absent"]
  /\ log_file = [g \in {LogFile(k) : k \in Keys} |-> NoLog]
  /\ ptable = [p \in Pids |-> NoProc]
  /\ call = NoCall
  /\ fail_at = [k \in Keys |-> None]
  /\ crashes = [k \in Keys |-> 0]
  /\ inflight = Idle

\* ret: the backoff check skips the restart; count: the next restart time
RestartTime(k) ==
  LET state == LoadState(World, k) IN
  /\ call' = [Called("next_restart_time", k, BackoffSkips(state, now), None) EXCEPT
                !.count = NextRestartTime(state.failure_count, state.last_failure_at)]
  /\ UNCHANGED <<log_file, inflight, now, state_file, pid_file, autostart, ptable, fail_at, crashes>>

NextBackoff == \E k \in Operated : RestartTime(k)

SpecBackoff == InitBackoff /\ [][NextBackoff]_vars

\* ------------------------------------------- a second, concurrent caller
\* SpecRace runs the invocations of one caller whole, as Spec does, and
\* between them the steps of the _heartbeat() of a get_status() that a
\* second caller makes: it loads the record, opens the state file for
\* writing (which truncates it) and writes the record it loaded.  The second
\* caller makes one such call, the first at most MaxRaceStarts calls of
\* start().

\* get_status has seen the process alive and _heartbeat has loaded the record
HeartbeatLoad(k) ==
  LET state == LoadState(World, k) IN
  /\ inflight.pc = "idle"
  /\ ~inflight.done
  /\ ~LoadRaises(World, k)
  /\ state.pid # None /\ ProcessExists(World, state.pid)
  /\ inflight' = [Idle EXCEPT !.pc = "loaded", !.key = k,
                               !.state = [state EXCEPT !.last_heartbeat = now],
                               !.before = state, !.done = TRUE,
                               !.starts = inflight.starts]
  /\ call' = Called("heartbeat_load", k, FALSE, state.pid)
  /\ UNCHANGED <<log_file, now, state_file, pid_file, autostart, ptable, fail_at, crashes>>

\* write_text opens the file: it is there and empty.  before is the record a
\* load returned until now.
HeartbeatOpen(k) ==
  /\ inflight.pc = "loaded" /\ inflight.key = k
  /\ inflight' = [inflight EXCEPT !.pc = "writing", !.before = LoadState(World, k)]
  /\ state_file' = [state_file EXCEPT
                      ![StateFile(k)] = [exists |-> TRUE, state |-> DefaultState,
                                         kind |-> "invalid"]]
  /\ call' = Called("heartbeat_open", k, FALSE, inflight.state.pid)
  /\ UNCHANGED <<log_file, now, pid_file, autostart, ptable, fail_at, crashes>>

\* write_text writes the record and closes the file; the text of a file
\* that was removed in between goes to no file of the directory
HeartbeatWrite(k) ==
  /\ inflight.pc = "writing" /\ inflight.key = k
  /\ inflight' = [Idle EXCEPT !.done = TRUE, !.starts = inflight.starts]
  /\ state_file' = IF state_file[StateFile(k)].exists
                     THEN [state_file EXCEPT
                             ![StateFile(k)] = [exists |-> TRUE, state |-> inflight.state,
                                                kind |-> "record"]]
                     ELSE state_file
  /\ call' = [Called("heartbeat", k, FALSE, inflight.state.pid) EXCEPT
                !.writes = <<<<StateFile(k), inflight.state.status>>>>]
  /\ UNCHANGED <<log_file, now, pid_file, autostart, ptable, fail_at, crashes>>

\* the first caller calls start() at most MaxRaceStarts times
StartRace(k) ==
  /\ inflight.starts < MaxRaceStarts
  /\ Start(k)
  /\ inflight' = [inflight EXCEPT !.starts = @ + 1]

NextRace ==
  \/ \E k \in Operated : StartRace(k)
  \/ \E k \in Operated : Stop(k)
  \/ \E k \in Operated : IsRunning(k)
  \/ \E k \in Operated : Status(k)
  \/ CleanupStale
  \/ \E p \in Pids : Crash(p)
  \/ \E k \in Operated : HeartbeatLoad(k)
  \/ \E k \in Operated : HeartbeatOpen(k)
  \/ \E k \in Operated : HeartbeatWrite(k)

SpecRace == Init /\ [][NextRace]_vars

\* ------------------------------------------------------ the tail of a log
\* SpecLogs starts with the log of the operated daemon absent or holding any
\* text of up to MaxLogBytes bytes, and reads its tail.
LogContents == UNION {[1..m -> LogBytes] : m \in 0..MaxLogBytes}

InitLogs ==
  /\ now = 1
  /\ state_file = [f \in {StateFile(k) : k \in Keys} |-> NoFile]
  /\ pid_file = [f \in {PidFile(k) : k \in Keys} |-> None]
  /\ autostart = [f \in {AutostartFile(k) : k \in Keys} |-> "absent"]
  /\ log_file \in [{LogFile(k) : k \in Keys} -> LogContents \cup {NoLog}]
  /\ \A k \in Keys \ Operated : log_file[LogFile(k)] = NoLog
  /\ ptable = [p \in Pids |-> NoProc]
  /\ call = NoCall
  /\ fail_at = [k \in Keys |-> None]
  /\ crashes = [k \in Keys |-> 0]
  /\ inflight = Idle

NextLogs == \E k \in Operated, lines \in 0..MaxLines : GetLogsCall(k, lines)

SpecLogs == InitLogs /\ [][NextLogs]_vars

\* ------------------------------------------------ one stop(), step by step
\* SpecStop runs the stop() of the second caller in the steps of its code:
\* get_pid, _update_status(STOPPING), SIGTERM to the process group,
\* process.wait(timeout), on TimeoutExpired the kill of the children, of the
\* group and of the process, process.wait(5), _cleanup_files.  Between the
\* steps the process may exit or ignore the signals, and the first caller
\* calls start().  events lists what the stop() persisted and signalled.

\* variant: the wait has no timeout
WaitNeverExpires(elapsed, timeout) == FALSE

\* process.wait(timeout=...) raises TimeoutExpired
WaitExpired(elapsed, timeout) == elapsed >= timeout

\* variant: the group is force-killed before the children are
EscalationGroupFirst == <<"sigkill_group", "sigkill_children", "sigkill">>

\* the signals of the escalation in the order of the code: child.kill() for
\* the children, os.killpg(pgid, SIGKILL), process.kill()
Escalation == <<"sigkill_children", "sigkill_group", "sigkill">>

\* the step changes no file and no process
Advance(pc, events) ==
  /\ inflight' = [inflight EXCEPT !.pc = pc, !.events = events, !.elapsed = 0]
  /\ call' = Called(pc, inflight.key, FALSE, inflight.pid)
  /\ UNCHANGED <<log_file, now, state_file, pid_file, autostart, ptable, fail_at, crashes>>

\* pid = self.get_pid(); without a pid, _cleanup_files() and return True
StopBegin(k) ==
  /\ inflight.pc = "idle" /\ ~inflight.done
  /\ ~LoadRaises(World, k)
  /\ LET g == GetPid(World, k, now)
         w == CleanupFiles(g.w, k, STOPPED, "None", FALSE, now)
     IN IF g.pid = None
          THEN /\ Commit(w, now)
               /\ inflight' = inflight
               /\ call' = [Called("stop", k, TRUE, None) EXCEPT !.writes = w.log]
               /\ crashes' = [crashes EXCEPT ![k] = FailureCount(w.sf, k)]
          ELSE /\ Commit(g.w, now)
               /\ inflight' = [Idle EXCEPT !.pc = "got_pid", !.key = k, !.pid = g.pid,
                                            !.done = TRUE, !.starts = inflight.starts]
               /\ call' = Called("got_pid", k, FALSE, g.pid)
               /\ crashes' = crashes
  /\ UNCHANGED <<log_file, now, autostart>>

\* self._update_status(DaemonStatus.STOPPING)
StopMarkStopping(k) ==
  /\ inflight.pc = "got_pid" /\ inflight.key = k
  /\ LET w == UpdateStatus(World, k, STOPPING, now) IN
     /\ Commit(w, now)
     /\ call' = [Called("stopping", k, FALSE, inflight.pid) EXCEPT !.writes = w.log]
  /\ inflight' = [inflight EXCEPT !.pc = "stopping",
                                  !.events = Append(@, "persist_stopping")]
  /\ UNCHANGED <<log_file, now, autostart, crashes>>

\* psutil.Process(pid), then os.killpg(os.getpgid(pid), SIGTERM); a process
\* that is gone raises NoSuchProcess, which leads to _cleanup_files
StopSigterm(k) ==
  /\ inflight.pc = "stopping" /\ inflight.key = k
  /\ IF ProcessExists(World, inflight.pid)
       THEN Advance("wait_term", Append(inflight.events, "sigterm_group"))
       ELSE Advance("cleanup", inflight.events)

\* a poll of process.wait: the exit code of a process that is gone, one more
\* poll, or TimeoutExpired.  rc is the code the wait returns for a process
\* that is gone.
StopPoll(k, pc, timeout, rc, expired) ==
  /\ inflight.pc = pc /\ inflight.key = k
  /\ IF ~ProcessExists(World, inflight.pid)
       THEN /\ inflight' = [inflight EXCEPT !.pc = "cleanup", !.exit_code = rc]
            /\ call' = Called("cleanup", k, FALSE, inflight.pid)
       ELSE IF WaitExpired(inflight.elapsed, timeout)
         THEN /\ inflight' = [inflight EXCEPT !.pc = expired, !.elapsed = 0,
                                              !.events = Append(@, "timeout")]
              /\ call' = Called(expired, k, FALSE, inflight.pid)
         ELSE /\ inflight' = [inflight EXCEPT !.elapsed = IF @ < timeout THEN @ + 1 ELSE @]
              /\ call' = Called(pc, k, FALSE, inflight.pid)
  /\ UNCHANGED <<log_file, now, state_file, pid_file, autostart, ptable, fail_at, crashes>>

\* rc = process.wait(timeout=timeout)
StopWait(k) ==
  \E rc \in {"None", "-15"} : StopPoll(k, "wait_term", StopTimeout, rc, "escalate1")

\* the i-th signal of the escalation; process.children() of a process that
\* is gone raises NoSuchProcess, the failures of the other two are logged
StopEscalate(k, i) ==
  /\ inflight.pc = <<"escalate1", "escalate2", "escalate3">>[i] /\ inflight.key = k
  /\ LET next == <<"escalate2", "escalate3", "wait_kill">>[i] IN
     IF ProcessExists(World, inflight.pid)
       THEN Advance(next, Append(inflight.events, Escalation[i]))
       ELSE Advance(IF i = 1 THEN "cleanup" ELSE next, inflight.events)

\* rc = process.wait(timeout=5); its exception is logged
StopWaitKill(k) ==
  \E rc \in {"None", "-9"} : StopPoll(k, "wait_kill", KillWait, rc, "cleanup")

\* self._cleanup_files(status=STOPPED, exit_code=exit_code,
\* reset_failures=True); return True.  The events and the pid of the call
\* stay in the record of the second caller.
StopCleanup(k) ==
  /\ inflight.pc = "cleanup" /\ inflight.key = k
  /\ LET w == CleanupFiles(World, k, STOPPED, inflight.exit_code, TRUE, now) IN
     /\ Commit(w, now)
     /\ call' = [Called("stop", k, TRUE, inflight.pid) EXCEPT !.writes = w.log]
     /\ crashes' = [crashes EXCEPT ![k] = FailureCount(w.sf, k)]
  /\ inflight' = [Idle EXCEPT !.done = TRUE, !.starts = inflight.starts,
                              !.pid = inflight.pid,
                              !.events = Append(inflight.events, "persist_stopped")]
  /\ UNCHANGED <<log_file, now, autostart>>

\* the process that the stop() works on exits
Exit(p) ==
  /\ inflight.pid = p /\ inflight.pc \notin {"idle", "got_pid", "stopping"}
  /\ ptable[p] # NoProc
  /\ ptable' = [ptable EXCEPT ![p] = NoProc]
  /\ call' = Called("exit", NoKey, FALSE, p)
  /\ UNCHANGED <<log_file, inflight, now, state_file, pid_file, autostart, fail_at, crashes>>

\* the steps of a stop() that is under way
StopSteps ==
  \E k \in Operated :
    \/ StopMarkStopping(k)
    \/ StopSigterm(k)
    \/ StopWait(k)
    \/ \E i \in 1..3 : StopEscalate(k, i)
    \/ StopWaitKill(k)
    \/ StopCleanup(k)

NextStop ==
  \/ \E k \in Operated : StartRace(k)
  \/ \E k \in Operated : StopBegin(k)
  \/ StopSteps
  \/ \E p \in Pids : Exit(p)
  \/ \E p \in Pids : Crash(p)

SpecStop == Init /\ [][NextStop]_vars

\* the caller of stop() keeps running: a step of its stop() that can be
\* taken is taken
SpecStopLive == SpecStop /\ WF_vars(StopSteps)

\* ----------------------------------------------- one start(), step by step
\* SpecStarts runs the start() of the second caller in two steps, the check
\* of is_running() and the rest, while the first caller calls start().

\* if self.is_running(): return False
StartBegin(k) ==
  /\ inflight.pc = "idle" /\ ~inflight.done
  /\ ~LoadRaises(World, k)
  /\ LET g == GetPid(World, k, now) IN
     /\ Commit(g.w, now)
     /\ IF g.pid # None
          THEN /\ inflight' = [inflight EXCEPT !.done = TRUE]
               /\ call' = [Called("start", k, FALSE, None) EXCEPT !.writes = g.w.log]
          ELSE /\ inflight' = [Idle EXCEPT !.pc = "start_checked", !.key = k,
                                            !.done = TRUE, !.starts = inflight.starts]
               /\ call' = [Called("start_checked", k, FALSE, None) EXCEPT
                             !.writes = g.w.log]
  /\ UNCHANGED <<log_file, now, autostart, crashes>>

\* the try block of start(): the log is opened, Popen spawns the process,
\* the pid file is written and the daemon registered; the handler of a
\* spawn that raised persists CRASHED
StartSpawn(k) ==
  /\ inflight.pc = "start_checked" /\ inflight.key = k
  /\ \E popen \in {None} \cup FreePids(World) :
       LET w1 == [World EXCEPT !.pt[popen] = k, !.pf[PidFile(k)] = popen]
           r == IF popen # None
                  THEN [w |-> RegisterDaemon(w1, k, popen, ManualCommand, now),
                        ret |-> TRUE, pid |-> popen]
                  ELSE [w |-> SpawnFailed(World, k, now), ret |-> FALSE, pid |-> None]
       IN
       /\ popen = None => CanFail(r.w, k)
       /\ Commit(r.w, now)
       /\ call' = [Called("start", k, r.ret, r.pid) EXCEPT !.writes = r.w.log]
       /\ crashes' = IF popen = None THEN [crashes EXCEPT ![k] = @ + 1] ELSE crashes
       /\ inflight' = [Idle EXCEPT !.done = TRUE, !.starts = inflight.starts,
                                   !.pid = r.pid]
  /\ log_file' = OpenLogs(log_file, {k})
  /\ UNCHANGED <<now, autostart>>

NextStarts ==
  \/ \E k \in Operated : StartRace(k)
  \/ \E k \in Operated : StartBegin(k)
  \/ \E k \in Operated : StartSpawn(k)
  \/ \E k \in Operated : IsRunning(k)
  \/ \E p \in Pids : Crash(p)

SpecStarts == Init /\ [][NextStarts]_vars

\* ------------------------------------------ one get_pid(), step by step
\* SpecObserve runs the get_pid() of the second caller (inside is_running or
\* get_status) in two steps, the liveness check and _mark_status(CRASHED),
\* while the first caller observes the same daemon.

\* state = self._load_state(); pid = state.get("pid"); psutil.Process(pid)
\* raises NoSuchProcess
ObserveDead(k) ==
  /\ inflight.pc = "idle" /\ ~inflight.done
  /\ ~LoadRaises(World, k)
  /\ LoadState(World, k).pid # None
  /\ ~ProcessExists(World, LoadState(World, k).pid)
  /\ inflight' = [Idle EXCEPT !.pc = "observed_dead", !.key = k, !.done = TRUE,
                               !.starts = inflight.starts,
                               !.pid = LoadState(World, k).pid]
  /\ call' = Called("observed_dead", k, FALSE, LoadState(World, k).pid)
  /\ UNCHANGED <<log_file, now, state_file, pid_file, autostart, ptable, fail_at, crashes>>

\* self._mark_status(DaemonStatus.CRASHED); return None
ObserveMark(k) ==
  /\ inflight.pc = "observed_dead" /\ inflight.key = k
  /\ LET w == MarkStatus(World, k, CRASHED, "None", FALSE, now) IN
     /\ Commit(w, now)
     /\ call' = [Called("is_running", k, FALSE, inflight.pid) EXCEPT !.writes = w.log]
  /\ inflight' = [Idle EXCEPT !.done = TRUE, !.starts = inflight.starts,
                              !.pid = inflight.pid]
  /\ UNCHANGED <<log_file, now, autostart, crashes>>

NextObserve ==
  \/ \E k \in Operated : IsRunning(k)
  \/ \E k \in Operated : Status(k)
  \/ CleanupStale
  \/ \E k \in Operated : StartRace(k)
  \/ \E p \in Pids : Crash(p)
  \/ \E k \in Operated : ObserveDead(k)
  \/ \E k \in Operated : ObserveMark(k)

SpecObserve == Init /\ [][NextObserve]_vars

\* ---------------------------------------------------- polling a daemon
\* SpecPoll starts, crashes and polls the operated daemon: is_running,
\* get_status and list_daemons, at any time.
NextPoll ==
  \/ \E k \in Operated : Start(k) /\ UNCHANGED inflight
  \/ \E p \in Pids : Crash(p)
  \/ \E k \in Operated : IsRunning(k)
  \/ \E k \in Operated : Status(k)
  \/ List
  \/ Tick

SpecPoll == Init /\ [][NextPoll]_vars

\* ------------------------------------------------------- pids used again
\* SpecReuse lets the OS give a free pid, that of a dead daemon included, to
\* a process of another program.
OtherProgram == <<<<"other">>, <<"program">>>>

Foreign(p) ==
  /\ ptable[p] = NoProc
  /\ ptable' = [ptable EXCEPT ![p] = OtherProgram]
  /\ call' = Called("foreign", NoKey, FALSE, p)
  /\ UNCHANGED <<log_file, inflight, now, state_file, pid_file, autostart, fail_at, crashes>>

NextReuse ==
  \/ \E k \in Operated : Start(k) /\ UNCHANGED inflight
  \/ \E k \in Operated : Stop(k)
  \/ \E k \in Operated : IsRunning(k)
  \/ \E p \in Pids : Crash(p)
  \/ \E p \in Pids : Foreign(p)

SpecReuse == Init /\ [][NextReuse]_vars

\* ------------------------------------------------- damaged state files
\* SpecCorrupt starts with the state file of an operated daemon absent, or
\* holding text that is no JSON (empty, truncated), or JSON that is no
\* object, and runs the operations on it.
CorruptFiles ==
  {NoFile,
   [exists |-> TRUE, state |-> DefaultState, kind |-> "invalid"],
   [exists |-> TRUE, state |-> DefaultState, kind |-> "nonrecord"]}

InitCorrupt ==
  /\ now = 1
  /\ state_file \in [{StateFile(k) : k \in Keys} -> CorruptFiles]
  /\ \A k \in Keys \ Operated : state_file[StateFile(k)] = NoFile
  /\ pid_file = [f \in {PidFile(k) : k \in Keys} |-> None]
  /\ autostart = [f \in {AutostartFile(k) : k \in Keys} |-> "absent"]
  /\ log_file = [f \in {LogFile(k) : k \in Keys} |-> NoLog]
  /\ ptable = [p \in Pids |-> NoProc]
  /\ call = NoCall
  /\ fail_at = [k \in Keys |-> None]
  /\ crashes = [k \in Keys |-> 0]
  /\ inflight = Idle

NextCorrupt ==
  \/ \E k \in Operated : Start(k) /\ UNCHANGED inflight
  \/ \E k \in Operated : Stop(k)
  \/ \E k \in Operated : IsRunning(k)
  \/ \E k \in Operated : Status(k)
  \/ CleanupStale
  \/ \E p \in Pids : Crash(p)

SpecCorrupt == InitCorrupt /\ [][NextCorrupt]_vars

\* ------------------------------------------- names that hold underscores
\* The manager over the daemons of FleetKeys.  notes_sync:daily has no
\* command in its manifest and is started by a direct caller; autostart is
\* set for notes:sync_daily.
FleetStarted == {<<<<"notes", "sync">>, <<"daily">>>>}
FleetEnabled == {<<<<"notes">>, <<"sync", "daily">>>>}

InitFleet ==
  /\ now = 1
  /\ EmptyDir(FleetKeys)

NextFleet ==
  \/ \E k \in FleetStarted : Start(k) /\ UNCHANGED inflight
  \/ \E k \in FleetEnabled, enabled \in BOOLEAN : SetAutostart(k, enabled)
  \/ List
  \/ StopAll
  \/ \E p \in Pids : Crash(p)

SpecFleet == InitFleet /\ [][NextFleet]_vars

\* the autostart flags of the same daemons, and the start of the enabled ones
NextAutostart ==
  \/ \E k \in FleetEnabled, enabled \in BOOLEAN : SetAutostart(k, enabled)
  \/ \E k \in FleetKeys : GetAutostartCall(k)
  \/ StartEnabled
  \/ \E p \in Pids : Crash(p)
  \/ Tick

SpecAutostart == InitFleet /\ [][NextAutostart]_vars

\* ------------------------------------------- autostart files of any content
\* SpecFlags starts with the autostart file of the operated daemon absent,
\* holding a flag, or holding text that is no JSON, and runs every operation
\* of the daemon and of the manager.
AutostartKinds == {"absent", "true", "false", "invalid"}

InitFlags ==
  /\ now = 1
  /\ state_file = [f \in {StateFile(k) : k \in Keys} |-> NoFile]
  /\ pid_file = [f \in {PidFile(k) : k \in Keys} |-> None]
  /\ autostart \in [{AutostartFile(k) : k \in Keys} -> AutostartKinds]
  /\ \A k \in Keys \ Operated : autostart[AutostartFile(k)] = "absent"
  /\ log_file = [f \in {LogFile(k) : k \in Keys} |-> NoLog]
  /\ ptable = [p \in Pids |-> NoProc]
  /\ call = NoCall
  /\ fail_at = [k \in Keys |-> None]
  /\ crashes = [k \in Keys |-> 0]
  /\ inflight = Idle

NextFlags ==
  \/ \E k \in Operated : Start(k) /\ UNCHANGED inflight
  \/ \E k \in Operated : Stop(k)
  \/ \E k \in Operated : IsRunning(k)
  \/ \E k \in Operated : Status(k)
  \/ CleanupStale
  \/ \E k \in Operated, enabled \in BOOLEAN : SetAutostart(k, enabled)
  \/ \E k \in Keys : GetAutostartCall(k)
  \/ StartEnabled
  \/ \E p \in Pids : Crash(p)

SpecFlags == InitFlags /\ [][NextFlags]_vars

\* ------------------------------------------------ the sweep of the records
\* Both daemons of Keys are started by direct callers, their processes die,
\* and the manager sweeps the records.
NextSweep ==
  \/ \E k \in Keys : Start(k) /\ UNCHANGED inflight
  \/ CleanupStale
  \/ \E p \in Pids : Crash(p)

SpecSweep == Init /\ [][NextSweep]_vars

\* -------------------------------------------------------------- claims
Rec(k) == LoadState(World, k)

\* the recorded pid of k is a live process
Running(k) == Rec(k).pid # None /\ ProcessExists(World, Rec(k).pid)

\* the record holds a pid and the OS has no such process
StalePid(k) == Rec(k).pid # None /\ ~ProcessExists(World, Rec(k).pid)

WithoutHeartbeat(state) == [state EXCEPT !.last_heartbeat = None]

\* C1: start() on a daemon whose recorded process is alive returns false,
\* spawns no process and leaves the record, apart from last_heartbeat, as it
\* was.
C1_StartOnRunningIsNoOp ==
  [][\A k \in Keys :
       (call'.op = "start" /\ call'.key = k /\ Running(k))
         => /\ call'.ret = FALSE
            /\ ptable' = ptable
            /\ state_file'[StateFile(k)].exists = state_file[StateFile(k)].exists
            /\ WithoutHeartbeat(Rec(k)') = WithoutHeartbeat(Rec(k))]_vars

C1_Witness ==
  /\ call.op = "start"
  /\ call.ret = FALSE
  /\ Running(call.key)

C3_ReconciliationCountsOnce ==
  [][\A k \in Keys :
       (call'.op = "is_running" /\ call'.key = k /\ StalePid(k))
         => /\ call'.ret = FALSE
            /\ Rec(k)'.status = CRASHED
            /\ Rec(k)'.pid = None
            /\ Rec(k)'.ended_at = now /\ now # None
            /\ Rec(k)'.last_failure_at = now
            /\ Rec(k)'.failure_count = Rec(k).failure_count + 1]_vars

C3_Witness ==
  /\ call.op = "is_running"
  /\ call.pid # None
  /\ call.ret = FALSE
  /\ Rec(call.key).status = CRASHED

\* the delay of the backoff schedule after F failures
BackoffDelay(F) ==
  FAILURE_BACKOFF_SCHEDULE[Min(F - 1, Len(FAILURE_BACKOFF_SCHEDULE) - 1) + 1]

\* the backoff window of k is over at time t: k has no recorded failure, or
\* its delay has passed since the most recent one was recorded.  A stale pid
\* is a failure that the call itself records, at t.
WindowOver(k, t) ==
  LET F == Rec(k).failure_count + (IF StalePid(k) THEN 1 ELSE 0)
      T == IF StalePid(k) THEN t ELSE fail_at[k]
  IN F = 0 \/ t >= T + BackoffDelay(F)

\* C4: start_enabled_daemons() calls start() for an autostart-enabled,
\* non-running daemon with a manifest command exactly when the backoff window
\* after its most recent recorded failure is over, however the failure was
\* recorded.
C4_RestartGating ==
  [][call'.op = "start_enabled_daemons" =>
       \A k \in Keys :
         (autostart[AutostartFile(k)] = "true" /\ Configs[k] # NoCommand /\ ~Running(k))
           => (k \in call'.started <=> WindowOver(k, now))]_vars

\* C5: the next restart time after F >= 1 failures, the last at T, is
\* T + schedule[min(F - 1, 3)]: the delay for F = 1..5 is 5, 30, 120, 600,
\* 600, it never decreases as F grows and never exceeds the last entry; with
\* F = 0 there is no restart time and the backoff check does not skip.
C5_BackoffSchedule ==
  call.op = "next_restart_time" =>
    LET F == Rec(call.key).failure_count
        T == Rec(call.key).last_failure_at
    IN /\ (F >= 1 /\ T # None) =>
            /\ call.count = T + <<5, 30, 120, 600>>[IF F - 1 < 3 THEN F ELSE 4]
            /\ F <= 5 => call.count - T = <<5, 30, 120, 600, 600>>[F]
            /\ call.count - T <= 600
            /\ \A G \in 1..F : NextRestartTime(G, T) <= call.count
            /\ call.ret = (now < call.count)
       /\ F = 0 => (call.count = None /\ call.ret = FALSE)

C5_Witness ==
  /\ call.op = "next_restart_time"
  /\ Rec(call.key).failure_count = 5
  /\ Rec(call.key).last_failure_at # None
  /\ call.count = Rec(call.key).last_failure_at + 600

\* C6: k consecutive crashes of a daemon with no stop() in between leave
\* its record with failure_count = k: a crashed record counts every failure
\* since the count that the last stop() left.
C6_ConsecutiveCrashesCounted ==
  \A k \in Keys :
    Rec(k).status = CRASHED => Rec(k).failure_count = crashes[k]

\* C7: when start() has returned true (called directly or by
\* start_enabled_daemons), the record holds the pid of the spawned process,
\* status RUNNING, the command, started_at and failure_count = 0.
Registered(k, pid, command) ==
  /\ state_file[StateFile(k)].exists
  /\ Rec(k).pid = pid /\ pid # None
  /\ ptable[pid] = k
  /\ Rec(k).status = RUNNING
  /\ Rec(k).command = command
  /\ Rec(k).started_at = now /\ now # None
  /\ Rec(k).failure_count = 0

C7_StartPersistsRunning ==
  /\ (call.op = "start" /\ call.ret = TRUE)
       => Registered(call.key, call.pid, ManualCommand)
  /\ call.op = "start_enabled_daemons"
       => \A k \in call.started :
            call.results[k] = "true" => Registered(k, Rec(k).pid, UvCommand(k))

\* a restart: start() has returned true for a daemon that had crashed before
C7_Witness ==
  /\ call.op = "start"
  /\ call.ret = TRUE
  /\ Rec(call.key).ended_at # None
  /\ Rec(call.key).pid = call.pid

\* C8: a start() whose spawn fails returns false, persists status CRASHED
\* with pid null and creates no process (the process table is as before the
\* call).  A start() of a non-running daemon that returns false is one whose
\* spawn failed.
C8_SpawnFailure ==
  [][\A k \in Keys :
       (call'.op = "start" /\ call'.key = k /\ ~Running(k) /\ call'.ret = FALSE)
         => /\ state_file'[StateFile(k)].exists
            /\ Rec(k)'.status = CRASHED
            /\ Rec(k)'.pid = None
            /\ ptable' = ptable]_vars

C8_Witness ==
  /\ call.op = "start"
  /\ call.ret = FALSE
  /\ Rec(call.key).pid = None
  /\ Rec(call.key).status = CRASHED

\* C9: a stop() that found the daemon running and returns true leaves the
\* record STOPPED with pid null, ended_at set, failure_count = 0 and
\* last_failure_at null; an is_running() that follows it returns false and
\* the status stays STOPPED.
C9_StopOfRunning ==
  [][\A k \in Keys :
       /\ (call'.op = "stop" /\ call'.key = k /\ call'.pid # None /\ call'.ret = TRUE)
            => /\ Rec(k)'.status = STOPPED
               /\ Rec(k)'.pid = None
               /\ Rec(k)'.ended_at = now /\ now # None
               /\ Rec(k)'.failure_count = 0
               /\ Rec(k)'.last_failure_at = None
       /\ (call.op = "stop" /\ call.key = k /\ call.pid # None /\ call.ret = TRUE
             /\ call'.op = "is_running" /\ call'.key = k)
            => /\ call'.ret = FALSE
               /\ Rec(k)'.status = STOPPED]_vars

C9_Witness ==
  /\ call.op = "stop"
  /\ call.pid # None
  /\ call.ret = TRUE
  /\ Rec(call.key).status = STOPPED
  /\ Rec(call.key).ended_at = now

\* C10: when stop() returns true the daemon is STOPPED and no process of
\* the daemon is alive, also when the process ignored SIGTERM for the whole
\* timeout.
C10_StopConfirmsGone ==
  (call.op = "stop" /\ call.ret = TRUE)
    => /\ Rec(call.key).status = STOPPED
       /\ \A p \in Pids : ptable[p] # call.key

\* C11: in every persisted record a pid is held only with status RUNNING,
\* STARTING or STOPPING (a STOPPED or CRASHED record has pid null), after
\* any sequence of start, stop, is_running, get_status and
\* cleanup_stale_entries and with the heartbeat of a second caller
\* interleaved in them.
C11_PidOnlyWhileActive ==
  \A f \in DOMAIN state_file :
    (Readable(World, f) /\ state_file[f].state.pid # None)
      => state_file[f].state.status \in {RUNNING, STARTING, STOPPING}

\* a record that ran is CRASHED with pid null while a heartbeat is in progress
C11_Witness ==
  /\ inflight.pc = "loaded"
  /\ Rec(inflight.key).status = CRASHED
  /\ Rec(inflight.key).pid = None
  /\ Rec(inflight.key).started_at # None

\* the status changes of the documented state machine
AllowedChange ==
  {<<STOPPED, RUNNING>>, <<CRASHED, RUNNING>>, <<STOPPED, CRASHED>>,
   <<RUNNING, STOPPING>>, <<STOPPING, STOPPED>>, <<STOPPING, CRASHED>>,
   <<RUNNING, CRASHED>>}

\* the status that state file f holds before an invocation (STOPPED when
\* there is no record) followed by the statuses the invocation persisted in
\* it, in order
StatusChain(f, writes) ==
  LET ws == SelectSeq(writes, LAMBDA e : e[1] = f)
  IN <<IF Readable(World, f) THEN state_file[f].state.status ELSE STOPPED>>
     \o [i \in 1..Len(ws) |-> ws[i][2]]

\* C12: every change of a persisted status, each write of each invocation
\* taken on its own, is a change of the documented state machine; no
\* operation makes any other, such as CRASHED -> STOPPED.
C12_StatusMachine ==
  [][\A f \in DOMAIN state_file :
       LET chain == StatusChain(f, call'.writes) IN
       \A i \in 1..(Len(chain) - 1) :
         chain[i] # chain[i + 1] => <<chain[i], chain[i + 1]>> \in AllowedChange]_vars

\* the state file of k is there and does not hold a record
Damaged(k) == state_file[StateFile(k)].exists /\ ~Readable(World, StateFile(k))

\* C13: an operation on a daemon whose state file is damaged does not
\* raise, and does what it does for a daemon that never ran: is_running()
\* returns false, get_status() reports STOPPED with pid null and
\* failure_count 0, stop() returns true, start() attempts the spawn, and
\* cleanup_stale_entries() does not raise either.
C13_DamagedFileIsDefault ==
  [][/\ \A k \in Keys :
          (Damaged(k) /\ call'.key = k
             /\ call'.op \in {"start", "stop", "is_running", "get_status"})
            => /\ ~call'.raised
               /\ call'.op = "is_running" => call'.ret = FALSE
               /\ call'.op = "get_status"
                    => (call'.status = STOPPED /\ call'.pid = None /\ call'.count = 0)
               /\ call'.op = "stop" => call'.ret = TRUE
               /\ call'.op = "start" => Rec(k)'.status \in {RUNNING, CRASHED}
     /\ call'.op = "cleanup_stale_entries" => ~call'.raised]_vars

\* C14: while the save of another invocation is in progress, a load finds a
\* complete record in the file (the one before the save or the one after
\* it): the file is never empty or partly written, so the load never falls
\* back to the default record.
C14_SaveIsAtomic ==
  inflight.pc = "writing" => Readable(World, StateFile(inflight.key))

\* C15: a heartbeat write that lands after stop() or a reconciliation has
\* persisted STOPPED or CRASHED with pid null leaves the record terminal
\* with pid null: it puts neither RUNNING nor the old pid back.
C15_HeartbeatKeepsTransition ==
  [][\A k \in Keys :
       (inflight.pc = "writing" /\ inflight.key = k /\ inflight'.pc = "idle"
          /\ inflight.before.status \in {STOPPED, CRASHED}
          /\ inflight.before.pid = None)
         => /\ Rec(k)'.status \in {STOPPED, CRASHED}
            /\ Rec(k)'.pid = None]_vars

\* the keys of the entries of a list
EntryKeys(entries) == {entries[i].key : i \in 1..Len(entries)}

\* C16: list_daemons returns an entry for exactly the keys that have a
\* persisted record or a command in a manifest, and for no other key; the
\* command of an entry is the manifest's when there is one, else the
\* persisted one.
C16_ListedKeys ==
  [][(call'.op = "list_daemons" /\ ~call'.raised)
       => /\ EntryKeys(call'.entries) =
               {k \in Installed :
                  state_file[StateFile(k)].exists \/ Configs[k] # NoCommand}
          /\ \A i \in 1..Len(call'.entries) :
               LET e == call'.entries[i] IN
               e.key \in Installed =>
                 /\ e.command = IF Configs[e.key] # NoCommand THEN Configs[e.key]
                                ELSE state_file[StateFile(e.key)].state.command
                 /\ ~state_file[StateFile(e.key)].exists
                      => e.status = STOPPED /\ e.pid = None]_vars

\* the process recorded for k is alive and was spawned for k
RunningDaemon(k) == Running(k) /\ ptable[Rec(k).pid] = k

\* C17: the map stop_all_daemons returns has one entry for each daemon that
\* was RUNNING and for no other, keyed by the daemon's app and id, and every
\* daemon mapped to true ends STOPPED with pid null.
C17_StopAllResults ==
  [][(call'.op = "stop_all_daemons" /\ ~call'.raised)
       => /\ DOMAIN call'.results = {k \in Installed : RunningDaemon(k)}
          /\ \A k \in Installed :
               (k \in DOMAIN call'.results /\ call'.results[k] = "true")
                 => Rec(k)'.status = STOPPED /\ Rec(k)'.pid = None]_vars

\* what cleanup_stale_entries makes of a record whose pid no process has
Swept(state, t) ==
  [state EXCEPT !.status = CRASHED, !.pid = None, !.ended_at = t,
                !.last_heartbeat = t, !.failure_count = @ + 1]

\* C18: cleanup_stale_entries turns every record whose pid is set and has no
\* process into CRASHED with pid null, ended_at and last_heartbeat now and
\* failure_count one higher, and leaves every other record as it was.
C18_CleanupMarksStale ==
  [][call'.op = "cleanup_stale_entries"
       => \A k \in Keys :
            Readable(World, StateFile(k))
              => IF StalePid(k)
                   THEN /\ Readable(World, StateFile(k))'
                        /\ Rec(k)' = Swept(Rec(k), now)
                   ELSE state_file'[StateFile(k)] = state_file[StateFile(k)]]_vars

\* a sweep has marked one record CRASHED and left the record of a live
\* daemon alone
C18_Witness ==
  /\ call.op = "cleanup_stale_entries"
  /\ call.count = 1
  /\ \E j, k \in Keys :
       /\ Rec(j).status = CRASHED /\ Rec(j).pid = None
       /\ Rec(j).ended_at = now /\ Rec(j).failure_count >= 1
       /\ call.writes = <<<<StateFile(j), CRASHED>>>>
       /\ Running(k) /\ Rec(k).status = RUNNING

\* the daemons whose autostart flag set_autostart left true
Enabled == {k \in FleetEnabled : autostart[AutostartFile(k)] = "true"}

\* C19: start_enabled_daemons returns one outcome for each daemon whose
\* autostart flag is true and none for any other daemon: true without a
\* spawn for a daemon already running, false for one with no command in the
\* manifest; and it calls start() for no daemon whose flag is not true.
C19_StartsTheEnabled ==
  [][(call'.op = "start_enabled_daemons" /\ ~call'.raised)
       => /\ DOMAIN call'.results = Enabled
          /\ call'.started \subseteq Enabled
          /\ \A k \in Enabled :
               /\ Running(k) => call'.results[k] = "true" /\ k \notin call'.started
               /\ (~Running(k) /\ CmdTemplate(k) = NoCommand)
                    => call'.results[k] = "false" /\ k \notin call'.started]_vars

\* C20: get_autostart returns what the set_autostart just before it wrote
\* for the same daemon, and false for a daemon whose flag was never set;
\* set_autostart of the value it wrote last changes nothing.
C20_AutostartRoundTrip ==
  [][/\ (call.op = "set_autostart" /\ call'.op = "get_autostart"
           /\ call'.key = call.key)
          => call'.ret = call.ret
     /\ (call'.op = "get_autostart" /\ call'.key \notin FleetEnabled)
          => call'.ret = FALSE
     /\ (call.op = "set_autostart" /\ call'.op = "set_autostart"
           /\ call'.key = call.key /\ call'.ret = call.ret)
          => autostart' = autostart]_vars

\* the operations on the run state of a daemon
RunStateOps ==
  {"start", "stop", "is_running", "get_status", "cleanup_stale_entries",
   "start_enabled_daemons"}

C22_StartIgnoresBackoff ==
  [][\A k \in Keys :
       (call'.op = "start" /\ call'.key = k /\ ~call'.raised /\ ~Running(k)
          /\ BackoffSkips(Rec(k), now))
         => \/ /\ call'.ret = TRUE
               /\ call'.pid # None
               /\ ptable[call'.pid] = NoProc /\ ptable'[call'.pid] = k
               /\ Rec(k)'.status = RUNNING /\ Rec(k)'.pid = call'.pid
            \/ /\ call'.ret = FALSE
               /\ ptable' = ptable
               /\ Rec(k)'.status = CRASHED
               /\ Rec(k)'.failure_count =
                    Rec(k).failure_count + 1 + (IF StalePid(k) THEN 1 ELSE 0)]_vars

\* a start() has spawned the daemon right after a start() whose spawn
\* failed, at the same time of day
C22_Witness ==
  /\ call.op = "start"
  /\ call.repeat
  /\ call.ret = TRUE
  /\ now = 1
  /\ \E k \in Keys : call.key = k /\ Running(k) /\ crashes[k] >= 1

\* C23: a stop() that has begun returns, with a boolean, whatever the
\* process does with the signals.
C23_StopReturns ==
  (inflight.pc # "idle") ~> (inflight.pc = "idle" /\ call.op = "stop" /\ call.ret \in BOOLEAN)

\* a stop() has returned after both of its waits ran out on a process that
\* is still there
C23_Witness ==
  /\ inflight.pc = "idle"
  /\ call.op = "stop"
  /\ inflight.events = <<"persist_stopping", "sigterm_group", "timeout",
                         "sigkill_children", "sigkill_group", "sigkill", "timeout",
                         "persist_stopped">>
  /\ ptable[inflight.pid] # NoProc

\* the last m lines of a list
LastLines(all_lines, m) == SubSeq(all_lines, Len(all_lines) - m + 1, Len(all_lines))

\* C24: get_logs(n) returns the last min(n, number of lines) lines of the
\* log file, in their order, for every n >= 0 and every file, and the empty
\* list when there is no log file.
C24_LogTail ==
  call.op = "get_logs" =>
    LET f == log_file[LogFile(call.key)]
        all_lines == SplitLines(f)
    IN call.entries = IF f = NoLog THEN <<>>
                      ELSE LastLines(all_lines, Min(call.count, Len(all_lines)))

\* C25: get_status() on a daemon whose recorded process is alive reports
\* RUNNING with the recorded pid and stamps last_heartbeat with the time of
\* the call; every other field of the record stays as it was.
C25_StatusOfRunning ==
  [][\A k \in Keys :
       (call'.op = "get_status" /\ call'.key = k /\ Running(k))
         => /\ call'.status = RUNNING
            /\ call'.pid = Rec(k).pid
            /\ state_file'[StateFile(k)].exists
            /\ Rec(k)'.last_heartbeat = now
            /\ WithoutHeartbeat(Rec(k)') = WithoutHeartbeat(Rec(k))
            /\ ptable' = ptable /\ pid_file' = pid_file]_vars

\* get_status has observed a restarted daemon later than its start
C25_Witness ==
  /\ call.op = "get_status"
  /\ call.status = RUNNING
  /\ call.pid # None /\ Rec(call.key).pid = call.pid
  /\ Rec(call.key).ended_at # None
  /\ Rec(call.key).started_at < now
  /\ Rec(call.key).last_heartbeat = now

\* the places of event e in the events of the stop() under way
At(e) == {i \in 1..Len(inflight.events) : inflight.events[i] = e}

Kills == {"sigkill_children", "sigkill_group", "sigkill"}

C27_NoStarting ==
  /\ \A f \in DOMAIN state_file :
       (state_file[f].exists /\ state_file[f].kind = "record")
         => state_file[f].state.status # STARTING
  /\ \A i \in 1..Len(call.writes) : call.writes[i][2] # STARTING
  /\ (call.op = "start" /\ ~call.raised /\ call.writes # <<>>)
       => /\ call.ret => call.writes[Len(call.writes)][2] = RUNNING
          /\ (~call.ret /\ Rec(call.key).pid = None)
               => call.writes[Len(call.writes)][2] = CRASHED

\* a start() whose spawn failed, of a daemon that ran before
C27_Witness ==
  /\ call.op = "start"
  /\ ~call.ret
  /\ call.writes = <<<<StateFile(call.key), CRASHED>>>>
  /\ Rec(call.key).started_at # None
  /\ Rec(call.key).status = CRASHED

\* the operations that the claim of the kept record names
RecordKeepers == {"start", "stop", "cleanup_stale_entries"}

\* C28: a start() that returns true for a daemon whose record holds no pid
\* leaves exit_code and ended_at of the record as they were; and no start,
\* stop or reconciliation removes the state file of a daemon.
C28_RestartKeepsHistory ==
  [][\A k \in Keys :
       /\ (call'.op = "start" /\ call'.key = k /\ call'.ret /\ Rec(k).pid = None)
            => /\ Rec(k)'.exit_code = Rec(k).exit_code
               /\ Rec(k)'.ended_at = Rec(k).ended_at
       /\ (call'.op \in RecordKeepers /\ state_file[StateFile(k)].exists)
            => state_file'[StateFile(k)].exists]_vars

\* the live processes that were started for daemon k
LiveFor(k) == {p \in Pids : ptable[p] = k}

\* C29: in every reachable state at most one live process was started for a
\* daemon, also when two start() invocations for it run at the same time.
C29_OneProcessPerDaemon ==
  \A k \in Keys : Cardinality(LiveFor(k)) <= 1

\* C30: once every invocation has returned, each live process that a
\* start() spawned and that no stop() signalled has its pid in the record of
\* its daemon with status RUNNING; and the last write of a stop() leaves the
\* record of a process other than the one it was stopping as it was.
C30_NoOrphan ==
  /\ [](inflight.pc = "idle"
          => \A p \in Pids :
               (ptable[p] # NoProc /\ p # inflight.pid)
                 => /\ Rec(ptable[p]).pid = p
                    /\ Rec(ptable[p]).status = RUNNING)
  /\ [][\A k \in Keys :
          (inflight.pc = "cleanup" /\ inflight'.pc = "idle" /\ inflight.key = k
             /\ Rec(k).pid \notin {None, inflight.pid})
            => Rec(k)' = Rec(k)]_vars

\* C31: a crash is counted once, however many invocations observe the dead
\* pid and also when they do so at the same time: the failure_count of a
\* record never exceeds the number of failures the daemon has had (crashes of
\* its recorded process and failed spawns).
C31_CrashCountedOnce ==
  \A k \in Keys : Rec(k).failure_count <= crashes[k]

\* C32: every record with failure_count >= 1 has last_failure_at set (the
\* next eligible restart time of a daemon with failures is defined), and each
\* operation that raises failure_count stamps last_failure_at with the time
\* of the call.
C32_FailureStamped ==
  /\ [](\A k \in Keys :
          Rec(k).failure_count >= 1
            => /\ Rec(k).last_failure_at # None
               /\ NextRestartTime(Rec(k).failure_count, Rec(k).last_failure_at) # None)
  /\ [][\A k \in Keys :
          Rec(k)'.failure_count > Rec(k).failure_count
            => Rec(k)'.last_failure_at = now]_vars

\* C33: a stop() never raises the failure_count of the record, whatever the
\* record and the process were before the call, a process that died
\* out-of-band included.
C33_StopIsNoFailure ==
  [][\A k \in Keys :
       (call'.op = "stop" /\ call'.key = k /\ ~call'.raised)
         => Rec(k)'.failure_count <= Rec(k).failure_count]_vars

\* the calls that only look at a daemon
PollOps == {"is_running", "get_status", "list_daemons"}

\* C34: once the record of a daemon is CRASHED with pid null, is_running(),
\* get_status() and list_daemons() leave its state file as it is, whenever
\* and however often they are called: failure_count, last_failure_at and the
\* next eligible restart time stay.
C34_PollingChangesNothing ==
  [][\A k \in Keys :
       (call'.op \in PollOps /\ Rec(k).status = CRASHED /\ Rec(k).pid = None)
         => /\ state_file'[StateFile(k)] = state_file[StateFile(k)]
            /\ NextRestartTime(Rec(k)'.failure_count, Rec(k)'.last_failure_at)
                 = NextRestartTime(Rec(k).failure_count, Rec(k).last_failure_at)]_vars

\* a crashed daemon is polled again, later than its reconciliation
C34_Witness ==
  /\ call.op \in PollOps /\ call.repeat
  /\ \E k \in Operated :
       /\ Rec(k).status = CRASHED /\ Rec(k).pid = None
       /\ Rec(k).failure_count >= 1
       /\ Rec(k).last_failure_at # None
       /\ Rec(k).last_failure_at < now

\* C35: a cleanup_stale_entries() that directly follows another one, with no
\* process and no file changed in between, changes no state file and no
\* other file of the directory and returns 0.
C35_CleanupIdempotent ==
  [][(call.op = "cleanup_stale_entries" /\ ~call.raised
        /\ call'.op = "cleanup_stale_entries")
       => /\ state_file' = state_file
          /\ autostart' = autostart
          /\ pid_file' = pid_file
          /\ ~call'.raised
          /\ call'.count = 0
          /\ call'.writes = <<>>]_vars

\* the second of two sweeps, the first of which had marked a record
C35_Witness ==
  /\ call.op = "cleanup_stale_entries" /\ call.repeat
  /\ call.count = 0
  /\ \E k \in Operated :
       /\ Rec(k).status = CRASHED /\ Rec(k).pid = None
       /\ Rec(k).failure_count >= 1
       /\ Rec(k).last_heartbeat = Rec(k).ended_at
       /\ Rec(k).last_failure_at = None

\* the operations on one daemon that write its files
KeyedWrites == {"start", "stop", "set_autostart"}

\* C36: an operation on one key works on files that no other key has and
\* leaves the record and the autostart flag of every other key as they were;
\* the keys that list_daemons and start_enabled_daemons read from the file
\* names are keys of installed daemons.
C36_KeysKeepApart ==
  [][/\ \A j, k \in Installed :
          (j # k /\ call'.op \in KeyedWrites /\ call'.key = k)
            => /\ StateFile(j) # StateFile(k)
               /\ AutostartFile(j) # AutostartFile(k)
               /\ LogFile(j) # LogFile(k)
               /\ Rec(j)' = Rec(j)
               /\ GetAutostart(autostart', j) = GetAutostart(autostart, j)
     /\ (call'.op = "list_daemons" /\ ~call'.raised)
          => EntryKeys(call'.entries) \subseteq Installed
     /\ (call'.op = "start_enabled_daemons" /\ ~call'.raised)
          => DOMAIN call'.results \subseteq Installed]_vars

\* C37: is_running() returns true only when the recorded pid is that of a
\* live process started for this daemon, and the process that a stop()
\* signals is one started for this daemon, never a process of another
\* program that has the recorded pid.
C37_OwnProcessOnly ==
  [][/\ (call'.op = "is_running" /\ call'.ret)
          => ptable[call'.pid] = call'.key
     /\ (call'.op = "stop" /\ call'.pid # None)
          => ptable[call'.pid] = call'.key]_vars

====
